---- MODULE Spec2Model ----
(***************************************************************************)
(* Welford<T, W>: online mean and variance with weights and merge          *)
(* (src/src/lib.rs).                                                       *)
(*                                                                         *)
(* T is modelled as a floating-point type without rounding: a value is an  *)
(* exact fraction <<n, d>> in lowest terms with d > 0, or one of the three *)
(* IEEE specials +inf = <<1, 0>>, -inf = <<-1, 0>>, NaN = <<0, 0>>, which   *)
(* division by zero produces.  W is an integer type: usize (the default,  *)
(* the only one new() and push() exist for) or a signed integer.          *)
(* Option<T> is a sequence of length at most one.                          *)
(***************************************************************************)
EXTENDS Integers, Sequences, FiniteSets, Bags, TLC

VARIABLES
    w,        \* w[i]: the Welford calculator i (mean, total, msq)
    wty,      \* the weight type W the calculators are instantiated with
    hist,     \* hist[i]: bag of the <<value, weight>> samples that went into w[i]
    last,     \* the last mutating call made: [op, i, j]
    nops,     \* number of mutating calls made so far
    panicked  \* TRUE once an unwrap() of None has aborted the program

vars == <<w, wty, hist, last, nops, panicked>>

\* ------------------------------------------------------------------ bounds
\* Number of mutating calls (push, push_weighted, merge) explored.
MaxOps == 3

\* Sample values pushed in the general specification.
Values == {1, 3, 5}

\* Weights pushed for W = usize and for a signed W.
UWeights == {0, 1, 2}
SWeights == {-1, 0, 1, 2}

Accs == {1, 2}

\* ------------------------------------------------------- arithmetic of T
Abs(n) == IF n < 0 THEN -n ELSE n

RECURSIVE GCD(_, _)
GCD(a, b) == IF b = 0 THEN a ELSE GCD(b, a % b)

\* The fraction n/d (d # 0) in lowest terms with a positive denominator.
Norm(n, d) ==
    LET g == GCD(Abs(n), Abs(d))
        s == IF d < 0 THEN -1 ELSE 1
    IN  <<(s * n) \div g, (s * d) \div g>>

NaN  == <<0, 0>>
PInf == <<1, 0>>
NInf == <<-1, 0>>

IsNaN(a)    == a = NaN
IsInf(a)    == a[2] = 0 /\ a[1] # 0
IsFinite(a) == a[2] > 0
Sign(a)     == IF a[1] > 0 THEN 1 ELSE IF a[1] < 0 THEN -1 ELSE 0

\* T::zero(), T::one()
Zero == <<0, 1>>
One  == <<1, 1>>

\* cast::<W, T>(n): an integer weight as a value of T (never fails here).
cast(n) == <<n, 1>>

Neg(a) == <<-a[1], a[2]>>

Add(a, b) ==
    IF IsNaN(a) \/ IsNaN(b) THEN NaN
    ELSE IF IsInf(a) /\ IsInf(b) THEN (IF a = b THEN a ELSE NaN)
    ELSE IF IsInf(a) THEN a
    ELSE IF IsInf(b) THEN b
    ELSE Norm(a[1] * b[2] + b[1] * a[2], a[2] * b[2])

Sub(a, b) == Add(a, Neg(b))

Mul(a, b) ==
    IF IsNaN(a) \/ IsNaN(b) THEN NaN
    ELSE IF IsInf(a) \/ IsInf(b)
         THEN (IF Sign(a) = 0 \/ Sign(b) = 0 THEN NaN ELSE <<Sign(a) * Sign(b), 0>>)
    ELSE Norm(a[1] * b[1], a[2] * b[2])

\* IEEE division; the divisors of the program are casts of integers, so a
\* zero divisor is +0.
Div(a, b) ==
    IF IsNaN(a) \/ IsNaN(b) THEN NaN
    ELSE IF IsInf(a) /\ IsInf(b) THEN NaN
    ELSE IF IsInf(a) THEN <<Sign(a) * (IF Sign(b) < 0 THEN -1 ELSE 1), 0>>
    ELSE IF IsInf(b) THEN Zero
    ELSE IF b[1] = 0 THEN (IF a[1] = 0 THEN NaN ELSE <<Sign(a), 0>>)
    ELSE Norm(a[1] * b[2], a[2] * b[1])

\* a >= 0 as the comparison of T evaluates it (false for NaN).
GeqZero(a) == ~IsNaN(a) /\ a[1] >= 0

\* ------------------------------------------------------------- Option<T>
None    == <<>>
Some(x) == <<x>>
unwrap(o) == o[1]

\* ------------------------------------------------------------ the struct
\* Welford::new(): the unweighted calculator (W = usize).
new == [mean |-> None, total |-> 0, msq |-> Zero]

\* Welford::with_weights(): the weighted calculator.
with_weights == [mean |-> None, total |-> 0, msq |-> Zero]

\* push_weighted with the classic slip: delta2 taken from the mean before its
\* update.
push_weighted_stale_mean(self, value, weight) ==
    LET total  == self.total + weight
        mean0  == IF self.mean = None THEN Some(value) ELSE self.mean
        delta  == Sub(value, unwrap(mean0))
        totalT == cast(total)
        weighted_delta == Mul(delta, cast(weight))
        mean1  == Add(unwrap(mean0), Div(weighted_delta, totalT))
        delta2 == Sub(value, unwrap(mean0))
    IN  [mean  |-> Some(mean1),
         total |-> total,
         msq   |-> Add(self.msq, Mul(weighted_delta, delta2))]

\* push_weighted whose mean update forgets the weight (delta / total).
push_weighted_unweighted_mean(self, value, weight) ==
    LET total  == self.total + weight
        mean0  == IF self.mean = None THEN Some(value) ELSE self.mean
        delta  == Sub(value, unwrap(mean0))
        totalT == cast(total)
        weighted_delta == Mul(delta, cast(weight))
        mean1  == Add(unwrap(mean0), Div(delta, totalT))
        delta2 == Sub(value, mean1)
    IN  [mean  |-> Some(mean1),
         total |-> total,
         msq   |-> Add(self.msq, Mul(weighted_delta, delta2))]

\* push_weighted whose msq update forgets the weight (delta * delta2).
push_weighted_unweighted_msq(self, value, weight) ==
    LET total  == self.total + weight
        mean0  == IF self.mean = None THEN Some(value) ELSE self.mean
        delta  == Sub(value, unwrap(mean0))
        totalT == cast(total)
        weighted_delta == Mul(delta, cast(weight))
        mean1  == Add(unwrap(mean0), Div(weighted_delta, totalT))
        delta2 == Sub(value, mean1)
    IN  [mean  |-> Some(mean1),
         total |-> total,
         msq   |-> Add(self.msq, Mul(delta, delta2))]

\* Welford::push_weighted
push_weighted(self, value, weight) ==
    LET total  == self.total + weight
        mean0  == IF self.mean = None THEN Some(value) ELSE self.mean
        delta  == Sub(value, unwrap(mean0))
        totalT == cast(total)
        weighted_delta == Mul(delta, cast(weight))
        mean1  == Add(unwrap(mean0), Div(weighted_delta, totalT))
        delta2 == Sub(value, mean1)
    IN  [mean  |-> Some(mean1),
         total |-> total,
         msq   |-> Add(self.msq, Mul(weighted_delta, delta2))]

\* Welford::push
push(self, value) == push_weighted(self, value, 1)

\* Welford::mean
mean(self) == self.mean

\* var with the off-by-one comparison total >= 1.
var_geq_one(self) ==
    IF self.total >= 1
    THEN Some(Div(self.msq, Sub(cast(self.total), One)))
    ELSE None

\* Welford::var
var(self) ==
    IF self.total > 1
    THEN Some(Div(self.msq, Sub(cast(self.total), One)))
    ELSE None

\* merge unwraps other.mean and self.mean in its general branch.
merge_panics(self, other) ==
    /\ other.total # 0
    /\ self.total # 0
    /\ (other.mean = None \/ self.mean = None)

\* merge whose msq correction uses the new total instead of self.total.
merge_new_total(self, other) ==
    LET weight == other.total IN
    IF weight = 0 THEN self
    ELSE IF self.total = 0 THEN other
    ELSE
        LET delta == Sub(unwrap(other.mean), unwrap(self.mean))
            total == self.total + weight
            weighted_delta == Mul(delta, cast(weight))
            mean_corr == Div(weighted_delta, cast(total))
        IN  [mean  |-> Some(Add(unwrap(self.mean), mean_corr)),
             total |-> total,
             msq   |-> Add(self.msq,
                           Add(other.msq, Mul(Mul(delta, cast(total)), mean_corr)))]

\* merge that, into an empty self, copies mean and total but not msq.
merge_keeps_msq(self, other) ==
    LET weight == other.total IN
    IF weight = 0 THEN self
    ELSE IF self.total = 0 THEN [other EXCEPT !.msq = self.msq]
    ELSE
        LET delta == Sub(unwrap(other.mean), unwrap(self.mean))
            total == self.total + weight
            weighted_delta == Mul(delta, cast(weight))
            mean_corr == Div(weighted_delta, cast(total))
        IN  [mean  |-> Some(Add(unwrap(self.mean), mean_corr)),
             total |-> total,
             msq   |-> Add(self.msq,
                           Add(other.msq, Mul(Mul(delta, cast(self.total)), mean_corr)))]

\* merge that, into an empty self, copies total and msq but not mean.
merge_keeps_mean(self, other) ==
    LET weight == other.total IN
    IF weight = 0 THEN self
    ELSE IF self.total = 0 THEN [other EXCEPT !.mean = self.mean]
    ELSE
        LET delta == Sub(unwrap(other.mean), unwrap(self.mean))
            total == self.total + weight
            weighted_delta == Mul(delta, cast(weight))
            mean_corr == Div(weighted_delta, cast(total))
        IN  [mean  |-> Some(Add(unwrap(self.mean), mean_corr)),
             total |-> total,
             msq   |-> Add(self.msq,
                           Add(other.msq, Mul(Mul(delta, cast(self.total)), mean_corr)))]

\* merge with its two early returns tested in the other order.
merge_swapped_checks(self, other) ==
    LET weight == other.total IN
    IF self.total = 0 THEN other
    ELSE IF weight = 0 THEN self
    ELSE
        LET delta == Sub(unwrap(other.mean), unwrap(self.mean))
            total == self.total + weight
            weighted_delta == Mul(delta, cast(weight))
            mean_corr == Div(weighted_delta, cast(total))
        IN  [mean  |-> Some(Add(unwrap(self.mean), mean_corr)),
             total |-> total,
             msq   |-> Add(self.msq,
                           Add(other.msq, Mul(Mul(delta, cast(self.total)), mean_corr)))]

\* Welford::merge (when it does not panic)
merge(self, other) ==
    LET weight == other.total IN
    IF weight = 0 THEN self
    ELSE IF self.total = 0 THEN other
    ELSE
        LET delta == Sub(unwrap(other.mean), unwrap(self.mean))
            total == self.total + weight
            weighted_delta == Mul(delta, cast(weight))
            mean_corr == Div(weighted_delta, cast(total))
        IN  [mean  |-> Some(Add(unwrap(self.mean), mean_corr)),
             total |-> total,
             msq   |-> Add(self.msq,
                           Add(other.msq, Mul(Mul(delta, cast(self.total)), mean_corr)))]

\* ------------------------------------------------------------ the program
Weights == IF wty = "usize" THEN UWeights ELSE SWeights

Sample(x, wt) == SetToBag({<<x, wt>>})

Init ==
    /\ wty \in {"usize", "signed"}
    /\ w = [i \in Accs |-> IF wty = "usize" THEN new ELSE with_weights]
    /\ hist = [i \in Accs |-> EmptyBag]
    /\ last = [op |-> "new", i |-> 0, j |-> 0]
    /\ nops = 0
    /\ panicked = FALSE

Push(i, x) ==
    /\ ~panicked
    /\ wty = "usize"
    /\ nops < MaxOps
    /\ w' = [w EXCEPT ![i] = push(@, cast(x))]
    /\ hist' = [hist EXCEPT ![i] = @ (+) Sample(x, 1)]
    /\ last' = [op |-> "push", i |-> i, j |-> 0]
    /\ nops' = nops + 1
    /\ UNCHANGED <<wty, panicked>>

PushWeighted(i, x, wt) ==
    /\ ~panicked
    /\ wt \in Weights
    /\ nops < MaxOps
    /\ w' = [w EXCEPT ![i] = push_weighted(@, cast(x), wt)]
    /\ hist' = [hist EXCEPT ![i] = @ (+) Sample(x, wt)]
    /\ last' = [op |-> "push_weighted", i |-> i, j |-> 0]
    /\ nops' = nops + 1
    /\ UNCHANGED <<wty, panicked>>

\* w[i].merge(w[j]); other is passed by value (the struct is Copy).
Merge(i, j) ==
    /\ ~panicked
    /\ nops < MaxOps
    /\ IF merge_panics(w[i], w[j])
       THEN /\ panicked' = TRUE
            /\ UNCHANGED <<w, hist>>
       ELSE /\ w' = [w EXCEPT ![i] = merge(@, w[j])]
            /\ hist' = [hist EXCEPT ![i] = @ (+) hist[j]]
            /\ UNCHANGED panicked
    /\ last' = [op |-> "merge", i |-> i, j |-> j]
    /\ nops' = nops + 1
    /\ UNCHANGED wty

\* w[i].mean() and w[i].var() take &self: they return a value and change
\* nothing.
MeanCall(i) ==
    /\ ~panicked
    /\ mean(w[i]) \in {None, w[i].mean}
    /\ UNCHANGED vars

VarCall(i) ==
    /\ ~panicked
    /\ var(w[i]) = None \/ Len(var(w[i])) = 1
    /\ UNCHANGED vars

Next ==
    \/ \E i \in Accs, x \in Values : Push(i, x)
    \/ \E i \in Accs, x \in Values, wt \in SWeights : PushWeighted(i, x, wt)
    \/ \E i \in Accs, j \in Accs : Merge(i, j)
    \/ \E i \in Accs : MeanCall(i)
    \/ \E i \in Accs : VarCall(i)

Spec == Init /\ [][Next]_vars

\* ------------------------------------------------------ the unit tests
\* The samples of tests::test_merge and tests::test_welford (unit weights),
\* of tests::test_weighted_merge and of tests::test_weighted_welford.
TestMergeA == {<<1, 1>>, <<3, 1>>, <<5, 1>>, <<7, 1>>}
TestMergeB == {<<2, 1>>, <<4, 1>>, <<6, 1>>, <<8, 1>>}
TestWeightedMergeA == {<<1, 4>>, <<3, 3>>, <<5, 2>>, <<7, 1>>}
TestWeightedMergeB == {<<2, 4>>, <<4, 3>>, <<6, 2>>, <<8, 1>>}
TestWeighted == {<<1, 3>>, <<3, 2>>, <<5, 1>>}

\* The data sets a run of the tests draws from: the unweighted tests build
\* their calculators with new()/default(), the weighted ones with
\* with_weights().
Datasets ==
    IF wty = "usize"
    THEN {SetToBag(TestMergeA \cup TestMergeB)}
    ELSE {SetToBag(TestWeightedMergeA \cup TestWeightedMergeB), SetToBag(TestWeighted)}

\* One sample of a data set, not pushed yet, is pushed into w[i]: the tests'
\* pushes, in any order and with any split between w1 and w2.
TestPush(i, p) ==
    /\ ~panicked
    /\ last.op # "merge"
    /\ \E d \in Datasets : (hist[1] (+) hist[2] (+) SetToBag({p})) \sqsubseteq d
    /\ w' = [w EXCEPT ![i] = IF wty = "usize" THEN push(@, cast(p[1]))
                                               ELSE push_weighted(@, cast(p[1]), p[2])]
    /\ hist' = [hist EXCEPT ![i] = @ (+) SetToBag({p})]
    /\ last' = [op |-> IF wty = "usize" THEN "push" ELSE "push_weighted",
                i |-> i, j |-> 0]
    /\ nops' = nops + 1
    /\ UNCHANGED <<wty, panicked>>

\* w1.merge(w2), the last statement of the merge tests.
TestMerge ==
    /\ ~panicked
    /\ last.op # "merge"
    /\ hist[1] # EmptyBag
    /\ hist[2] # EmptyBag
    /\ IF merge_panics(w[1], w[2])
       THEN /\ panicked' = TRUE
            /\ UNCHANGED <<w, hist>>
       ELSE /\ w' = [w EXCEPT ![1] = merge(@, w[2])]
            /\ hist' = [hist EXCEPT ![1] = @ (+) hist[2]]
            /\ UNCHANGED panicked
    /\ last' = [op |-> "merge", i |-> 1, j |-> 2]
    /\ nops' = nops + 1
    /\ UNCHANGED wty

TestSamples ==
    TestMergeA \cup TestMergeB \cup TestWeightedMergeA \cup TestWeightedMergeB
        \cup TestWeighted

NextTests ==
    \/ \E i \in Accs, p \in TestSamples : TestPush(i, p)
    \/ TestMerge

SpecTests == Init /\ [][NextTests]_vars

\* ================================================================ claims
\* Helpers of the claims.
Empty(self) == self.total = 0

SameStats(a, b) ==
    /\ a.total = b.total
    /\ mean(a) = mean(b)
    /\ var(a) = var(b)

NonNegative(B) == \A e \in BagToSet(B) : e[2] >= 0
Positive(B)    == \A e \in BagToSet(B) : e[2] > 0
UnitOnly(B)    == \A e \in BagToSet(B) : e[2] = 1

\* ------------------------------------------------------------------- C1
\* C1: in every reachable state the mean is absent if and only if total is
\* zero, whatever weights (zero included) were pushed.
C1_MeanAbsentIffTotalZero ==
    \A i \in Accs : (mean(w[i]) = None) <=> (w[i].total = 0)

\* ------------------------------------------------------------------ C10
\* C10: in every reachable state total # 0 implies that the mean is present,
\* so the unwraps of merge's general branch never panic.
C10_NonzeroTotalHasMean ==
    /\ ~panicked
    /\ \A i \in Accs : w[i].total # 0 => mean(w[i]) # None

\* merge has just run through its general branch: the receiver's total is
\* the sum of two nonzero totals.
C10_Witness ==
    /\ last.op = "merge"
    /\ last.i # last.j
    /\ w[last.j].total # 0
    /\ w[last.i].total # w[last.j].total
    /\ hist[last.i] # hist[last.j]
    /\ mean(w[last.i]) # None

\* ------------------------------------------------------------------- C8
\* C8: the mean, once present, is never absent again, and it becomes present
\* only by a push or push_weighted on that calculator or by a merge into it
\* from a calculator whose mean is present.
C8_OneWay ==
    [][\A i \in Accs :
          /\ mean(w[i]) # None => mean(w'[i]) # None
          /\ (mean(w[i]) = None /\ mean(w'[i]) # None) =>
                /\ last'.i = i
                /\ \/ last'.op \in {"push", "push_weighted"}
                   \/ last'.op = "merge" /\ mean(w[last'.j]) # None]_vars

\* A merge has populated an empty receiver: its samples are other's.
C8_Witness ==
    /\ last.op = "merge"
    /\ last.i = 1
    /\ last.j = 2
    /\ hist[1] = hist[2]
    /\ hist[1] # EmptyBag
    /\ mean(w[1]) # None
    /\ nops = 2

\* ------------------------------------------------------------------- C6
\* C6: a merge whose other is empty (total zero) leaves self's mean, total and
\* msq unchanged; a merge of a non-empty other into an empty self leaves self
\* with exactly other's mean, total and msq.
C6_MergeEmpty ==
    [][\A i \in Accs, j \in Accs :
          (last'.op = "merge" /\ last'.i = i /\ last'.j = j /\ nops' = nops + 1) =>
             /\ Empty(w[j]) => w'[i] = w[i]
             /\ (Empty(w[i]) /\ ~Empty(w[j])) => w'[i] = w[j]]_vars

\* A merge has copied a non-empty other, with a nonzero msq, into an empty
\* self.
C6_Witness ==
    /\ last.op = "merge"
    /\ last.i # last.j
    /\ hist[last.i] = hist[last.j]
    /\ w[last.i] = w[last.j]
    /\ w[last.j].total > 1
    /\ w[last.j].msq \notin {Zero, NaN}

\* ------------------------------------------------------------------- C5
\* C5: var() returns a value exactly when total > 1, and that value is
\* msq / (total - 1); with unit-weight samples only it is absent up to one
\* sample and present from two on; a step that leaves a history of
\* non-negative weights never makes a present var() absent.
C5_VarState ==
    \A i \in Accs :
        /\ (var(w[i]) # None) <=> (w[i].total > 1)
        /\ w[i].total <= 1 => var(w[i]) = None
        /\ w[i].total > 1 => var(w[i]) = Some(Div(w[i].msq, cast(w[i].total - 1)))
        /\ UnitOnly(hist[i]) => ((var(w[i]) = None) <=> (BagCardinality(hist[i]) <= 1))

C5_VarStep ==
    \A i \in Accs :
        (NonNegative(hist'[i]) /\ var(w[i]) # None) => var(w'[i]) # None

\* C5: in every state var() is defined exactly when total > 1 (C5_VarState),
\* and under non-negative weights it stays defined once it is (C5_VarStep).
C5_VarDefined == []C5_VarState /\ [][C5_VarStep]_vars

\* var() returns a value after a second unit-weight push.
C5_Witness ==
    /\ last.op = "push"
    /\ var(w[last.i]) # None
    /\ UnitOnly(hist[last.i])
    /\ BagCardinality(hist[last.i]) = 2
    /\ w[last.i].total = 2

\* ------------------------------------------------------------------- C9
\* C9: in every state reached with non-negative weights only, msq >= 0.
C9_MsqNonNegative ==
    \A i \in Accs : NonNegative(hist[i]) => GeqZero(w[i].msq)

\* ------------------------------------------- reference values of C2, C3
\* Largest repeat count tried in C7.
MaxK == 2

\* The least sample of a non-empty set of samples (by value, then weight).
Least(S) ==
    CHOOSE e \in S : \A f \in S : e[1] < f[1] \/ (e[1] = f[1] /\ e[2] <= f[2])

Rest(B, e) == [f \in (DOMAIN B) \ {e} |-> B[f]]

\* sum of the weights, sum of weight * value, over a bag of samples
RECURSIVE SumW(_)
SumW(B) ==
    IF DOMAIN B = {} THEN 0
    ELSE LET e == Least(DOMAIN B) IN B[e] * e[2] + SumW(Rest(B, e))

RECURSIVE SumWX(_)
SumWX(B) ==
    IF DOMAIN B = {} THEN 0
    ELSE LET e == Least(DOMAIN B) IN B[e] * e[2] * e[1] + SumWX(Rest(B, e))

\* sum of weight * (value - m)^2 over a bag of samples
RECURSIVE SumWDev2(_, _)
SumWDev2(B, m) ==
    IF DOMAIN B = {} THEN Zero
    ELSE LET e == Least(DOMAIN B)
             d == Sub(cast(e[1]), m)
         IN  Add(Mul(cast(B[e] * e[2]), Mul(d, d)), SumWDev2(Rest(B, e), m))

WeightedMean(B) == Norm(SumWX(B), SumW(B))

\* A single calculator into which the samples of B are pushed, least first.
RECURSIVE PushAll(_, _)
PushAll(self, B) ==
    IF DOMAIN B = {} THEN self
    ELSE LET e == Least(DOMAIN B)
         IN  PushAll(push_weighted(self, cast(e[1]), e[2]), B (-) SetToBag({e}))

\* For every k from the given one up to MaxK, push_weighted(x, k) on self
\* has the total, mean and var() of k successive push(x) calls on self;
\* pushed is self after k - 1 of those calls.
RECURSIVE RepeatAgrees(_, _, _, _)
RepeatAgrees(self, pushed, x, k) ==
    \/ k > MaxK
    \/ LET next == push(pushed, x)
       IN  /\ SameStats(push_weighted(self, x, k), next)
           /\ RepeatAgrees(self, next, x, k + 1)

\* ------------------------------------------------------------------- C3
\* C3: a calculator whose samples all have positive weights has
\* total = sum w, mean = sum(w*x) / sum w and, when sum w > 1,
\* var = sum(w * (x - mean)^2) / (sum w - 1); the samples 1, 3, 5 with unit
\* weight give mean 3 and var 4.
C3_ClosedForm ==
    \A i \in Accs :
        (hist[i] # EmptyBag /\ Positive(hist[i])) =>
            LET n == SumW(hist[i])
                m == WeightedMean(hist[i])
            IN  /\ w[i].total = n
                /\ mean(w[i]) = Some(m)
                /\ n > 1 => var(w[i]) = Some(Div(SumWDev2(hist[i], m), cast(n - 1)))
                /\ hist[i] = SetToBag({<<1, 1>>, <<3, 1>>, <<5, 1>>}) =>
                       /\ mean(w[i]) = Some(<<3, 1>>)
                       /\ var(w[i]) = Some(<<4, 1>>)

\* 1, 3 and 5 have been pushed with unit weight.
C3_Witness ==
    /\ last.op = "push"
    /\ hist[last.i] = SetToBag({<<1, 1>>, <<3, 1>>, <<5, 1>>})
    /\ var(w[last.i]) = Some(<<4, 1>>)

\* ------------------------------------------------------------------- C7
\* C7 as claimed: for every reachable calculator, value x and k >= 1,
\* push_weighted(x, k) gives the same total, mean and var() as k push(x).
C7_WeightIsRepeatCount ==
    \A i \in Accs, x \in Values : RepeatAgrees(w[i], w[i], cast(x), 1)

\* C7 as amended: the same for every reachable calculator whose total is not
\* negative.
C7_WeightIsRepeatCountNonNeg ==
    \A i \in Accs, x \in Values :
        w[i].total >= 0 => RepeatAgrees(w[i], w[i], cast(x), 1)

\* push_weighted(3, 2) has been called on a calculator holding the sample 1,
\* and the result has the total, mean and var() (4/3) of the calculator into
\* which 1, 3 and 3 are pushed one by one.
C7_Witness ==
    /\ last.op = "push_weighted"
    /\ hist[last.i] = Sample(1, 1) (+) Sample(3, 2)
    /\ SameStats(w[last.i],
                 PushAll(new, Sample(1, 1) (+) Sample(3, 1) (+) Sample(3, 1)))
    /\ var(w[last.i]) = Some(<<4, 3>>)

\* ------------------------------------------------------------------- C2
\* C2: whatever the order the samples were pushed in and however they were
\* split between w1 and w2 before w1.merge(w2), a calculator has the total,
\* mean and var() of the single calculator into which its samples are pushed
\* least first; test_merge's samples give mean 4.5 and var 6, and
\* test_weighted_merge's give mean 3.5 and var 85/19.
C2_MergeIsPushAll ==
    /\ \A i \in Accs : SameStats(w[i], PushAll(new, hist[i]))
    /\ (last.op = "merge" /\ hist[1] = SetToBag(TestMergeA \cup TestMergeB)) =>
           /\ mean(w[1]) = Some(<<9, 2>>)
           /\ var(w[1]) = Some(<<6, 1>>)
    /\ (last.op = "merge" /\ hist[1] = SetToBag(TestWeightedMergeA \cup TestWeightedMergeB)) =>
           /\ mean(w[1]) = Some(<<7, 2>>)
           /\ var(w[1]) = Some(<<85, 19>>)

\* test_weighted_merge has run: w2 holds its four samples and w1, after the
\* merge, all eight.
C2_Witness ==
    /\ last.op = "merge"
    /\ hist[2] = SetToBag(TestWeightedMergeB)
    /\ hist[1] = SetToBag(TestWeightedMergeA \cup TestWeightedMergeB)
    /\ var(w[1]) = Some(<<85, 19>>)

\* ------------------------------------------------------------------- C4
\* C4 as claimed: after (1, weight 3), (3, weight 2), (5, weight 1) the mean
\* is 1.8 and var() is 1.2.
C4_ThreeWeightedPushes ==
    \A i \in Accs :
        hist[i] = SetToBag(TestWeighted) =>
            /\ mean(w[i]) = Some(<<9, 5>>)
            /\ var(w[i]) = Some(<<6, 5>>)

\* C4 as amended: mean 1.8 and var 1.2 are the values after (1, weight 3) and
\* (3, weight 2); after (5, weight 1) as well the mean is 7/3 and var() is 8/3.
C4_WeightedPushes ==
    \A i \in Accs :
        /\ hist[i] = SetToBag({<<1, 3>>, <<3, 2>>}) =>
              /\ mean(w[i]) = Some(<<9, 5>>)
              /\ var(w[i]) = Some(<<6, 5>>)
        /\ hist[i] = SetToBag(TestWeighted) =>
              /\ mean(w[i]) = Some(<<7, 3>>)
              /\ var(w[i]) = Some(<<8, 3>>)

\* The three weighted samples have been pushed into w1, (5, 1) last.
C4_Witness ==
    /\ last.op = "push_weighted"
    /\ last.i = 1
    /\ hist[1] = SetToBag(TestWeighted)
    /\ hist[2] = EmptyBag
    /\ mean(w[1]) = Some(<<7, 3>>)

====
